---- MODULE Spec2Model ----
(***************************************************************************)
(* State-machine model of GeminiLiveClient (src/src/lib/gemini-live.ts):   *)
(* the WebSocket session, the setup handshake, the receive dispatcher with *)
(* its transcript buffers and playback queue, the outbound send calls, the *)
(* microphone capture with its sample conversions and disconnect().  The   *)
(* browser's WebSocket, AudioContext and getUserMedia are the environment; *)
(* the events of a socket are the actions Sock*.                           *)
(***************************************************************************)
EXTENDS Integers, Sequences, FiniteSets, TLC

\* ------------------------------------------------------------------ bounds
\* number of connect() calls on one client
MaxConns == 2
\* longest transcript buffer, in characters
MaxBuf == 2
\* frames the application writes to one connection (the setup frame excluded)
MaxOut == 1
\* largest value of the playback clock and of nextPlayTime
MaxTime == 2
\* longest transcript buffer in the session specification
MaxBufSession == 1
\* longest audio queue
MaxQueue == 1
\* saturation point of the call counters (0, 1, "more than once")
CapCount == 2
\* startMicrophone() calls in flight, and microphone streams that are live
MaxMics == 2
\* largest value of the playback clock and of nextPlayTime in the playback
\* specification
MaxPlayTime == 4
\* longest transcript buffer in the happy-path specification
MaxBufHappy == 4
\* float samples between two neighbouring PCM levels, the levels included
\* once: the resolution of the capture input
SubSteps == 2
\* frames of one run in the interleaving specification
MaxScript == 3
\* largest value of the playback clock in the interleaving specification
MaxScriptTime == 1

\* ------------------------------------------------------------ value domains
NoSock == 0
Conns == 1..MaxConns
\* characters of transcript text; " " is the whitespace that trim() removes
Chars == {"a", "b", " "}
Whitespace == {" "}
\* transcription.text of one frame: absent/empty, or one character
Chunks == {<<>>} \cup {<<c>> : c \in Chars}
\* the text argument of sendText
Texts == {<<"a">>, <<" ">>}
\* an inlineData part: the samples decode to a buffer lasting 1 time unit,
\* or the base64 text is invalid and atob() throws
AudioParts == {"pcm", "badBase64"}
PartDuration == 1

Min(a, b) == IF a < b THEN a ELSE b
Max(a, b) == IF a > b THEN a ELSE b
Bump(n) == Min(n + 1, CapCount)

\* ---------------------------------------------------------------- String.trim
RECURSIVE TrimStart(_)
TrimStart(s) ==
  IF s = <<>> THEN <<>>
  ELSE IF Head(s) \in Whitespace THEN TrimStart(Tail(s)) ELSE s

RECURSIVE TrimEnd(_)
TrimEnd(s) ==
  IF s = <<>> THEN <<>>
  ELSE IF s[Len(s)] \in Whitespace THEN TrimEnd(SubSeq(s, 1, Len(s) - 1)) ELSE s

Trim(s) == TrimEnd(TrimStart(s))

\* ------------------------------------------------------ sample conversions
\* A float sample x is written as the integer x * FullScale * SubSteps, so
\* that the product inputData[i] * 32768 is that integer counted in steps of
\* 1/SubSteps; every sample in the ranges below is exact in float32.
FullScale == 32768
PcmMax == 32767
PcmMin == -32768
PcmSamples == PcmMin..PcmMax
\* the capture input, up to one and a half times full scale on either side
Overdrive == (3 * FullScale * SubSteps) \div 2
FloatSamples == (-Overdrive)..Overdrive

\* Math.max(-32768, Math.min(32767, y))
Clamped_none(y) == y
Clamped(y) == Max(PcmMin * SubSteps, Min(PcmMax * SubSteps, y))

\* storing a number in an Int16Array element: the fraction is dropped
\* (towards zero) and the integer is taken modulo 2^16 into the int16 range
TruncateToZero(y) ==
  IF y >= 0 THEN y \div SubSteps ELSE -((-y) \div SubSteps)
ToInt16(i) == ((i + FullScale) % (2 * FullScale)) - FullScale

\* pcmData[i] = Math.max(-32768, Math.min(32767, inputData[i] * 32768))
Float32ToPcm16(x) == ToInt16(TruncateToZero(Clamped(x)))

\* float32Data[i] = int16Data[i] / 32768
Pcm16ToFloat32_halved(p) == (p * SubSteps) \div 2
Pcm16ToFloat32(p) == p * SubSteps

\* --------------------------------------------------------------- the state
VARIABLES
  \* fields of GeminiLiveClient
  ws,                  \* the socket the client holds (NoSock = null)
  isConnected,
  connectResolve,      \* the connect() call whose resolve is stored (0 = undefined)
  connectReject,       \* the connect() call whose reject is stored (0 = undefined)
  userResponseBuffer,
  modelResponseBuffer,
  audioQueue,
  playbackContext,     \* "null" | "running"
  nextPlayTime,
  mediaStream,         \* FALSE = null
  audioContext,        \* FALSE = null (the capture context)
  \* the environment
  sock,                \* readyState of the socket each connect() created
  out,                 \* frames written to each socket, in order
  promise,             \* state of the promise each connect() returned
  clock,               \* currentTime of the playback AudioContext
  scheduled,           \* <<start, end>> of every source started on that context
  deviceOk,            \* an audio output device can be opened
  micPending,          \* startMicrophone() calls waiting for getUserMedia
  micStale,            \* those of them made before the last stopMicrophone() or
                       \* disconnect()
  liveStreams,         \* microphone streams whose tracks have not been stopped
  liveContexts,        \* capture contexts that are open, each driving its block processor
  \* what the last operation did, and history the claims speak about
  op,                  \* name of the last operation
  received,            \* the frame the last operation was given, if it was onmessage
                       \* (kept while recording)
  threw,               \* the last operation threw
  fired,               \* callbacks the last operation invoked, in order
  acked,               \* sockets on which a setupComplete frame was received
  early,               \* sockets that got a content frame before their setupComplete
  nOnConnect,          \* onConnect invocations caused by each socket's frames
  closeCalls,          \* close() calls made on each socket
  flush,               \* what the turnComplete branch found, if the last operation ran it
  discarded,           \* a disconnect() has cleared a transcript buffer that held text
  turnUser,            \* user chunks received since the last turn boundary or disconnect()
  turnModel,           \* model chunks received since the last turn boundary or disconnect()
  staleUser,           \* leading characters of userResponseBuffer that predate the last disconnect()
  staleModel,          \* the same for modelResponseBuffer
  recording,           \* what the hosting application keeps of what it is given:
                       \* "frames", "messages", "script"
  log,                 \* role and content of those Messages, in order of delivery
  script,              \* the content frames received, each with the playback clock
                       \* at its arrival (kept while recording)
  first,               \* what an earlier client of the application was given and
                       \* what it delivered and scheduled
  samples              \* one audio sample on its way through the conversions

sessionVars == <<ws, isConnected, connectResolve, connectReject>>
transcriptVars == <<userResponseBuffer, modelResponseBuffer,
                    turnUser, turnModel, staleUser, staleModel>>
playbackVars == <<audioQueue, playbackContext, nextPlayTime, clock, scheduled>>
captureVars == <<mediaStream, audioContext, micPending, micStale, liveStreams,
                 liveContexts>>
wireVars == <<sock, out, promise>>
lastVars == <<op, threw, fired, flush, received>>
logVars == <<recording, log, script>>
histVars == <<acked, early, nOnConnect, closeCalls, discarded>>
clientVars == <<sessionVars, transcriptVars, playbackVars, captureVars,
                wireVars, deviceOk, lastVars, histVars, logVars>>
vars == <<clientVars, first, samples>>

\* a callback invocation; type and content are those of the LiveMessage
\* passed to onMessage, stale counts the characters of content that were
\* accumulated before the last disconnect()
Call(cb) == [cb |-> cb, type |-> "", content |-> <<>>, stale |-> 0]
MessageCall(type, content, stale) ==
  [cb |-> "onMessage", type |-> type, content |-> content, stale |-> stale]

\* flush when the last operation did not run the turnComplete branch, and when
\* it did: the two buffers as the branch found them and the text of the turn
NoFlush ==
  [done |-> FALSE, bufUser |-> <<>>, bufModel |-> <<>>,
   user |-> <<>>, model |-> <<>>]
Flushed(bufUser, bufModel, user, model) ==
  [done |-> TRUE, bufUser |-> bufUser, bufModel |-> bufModel,
   user |-> user, model |-> model]

\* a received frame: malformed (JSON.parse throws), setupComplete,
\* serverContent with its optional members, or any other JSON object
NoContent ==
  [interrupted |-> FALSE, audio |-> <<>>, input |-> <<>>, output |-> <<>>,
   turnComplete |-> FALSE]
Frame(kind, content) ==
  [kind |-> kind, interrupted |-> content.interrupted, audio |-> content.audio,
   input |-> content.input, output |-> content.output,
   turnComplete |-> content.turnComplete]
\* received when the last operation was not onmessage
NoFrame == Frame("none", NoContent)

Constructed ==
  /\ ws = NoSock
  /\ isConnected = FALSE
  /\ connectResolve = 0
  /\ connectReject = 0
  /\ userResponseBuffer = <<>>
  /\ modelResponseBuffer = <<>>
  /\ audioQueue = <<>>
  /\ playbackContext = "null"
  /\ nextPlayTime = 0
  /\ mediaStream = FALSE
  /\ audioContext = FALSE
  /\ sock = [c \in Conns |-> "NONE"]
  /\ out = [c \in Conns |-> <<>>]
  /\ promise = [c \in Conns |-> "none"]
  /\ clock = 0
  /\ scheduled = <<>>
  /\ deviceOk = TRUE
  /\ micPending = 0
  /\ micStale = 0
  /\ liveStreams = 0
  /\ liveContexts = 0
  /\ op = "new"
  /\ threw = FALSE
  /\ fired = <<>>
  /\ acked = {}
  /\ early = {}
  /\ nOnConnect = [c \in Conns |-> 0]
  /\ closeCalls = [c \in Conns |-> 0]
  /\ flush = NoFlush
  /\ discarded = FALSE
  /\ turnUser = <<>>
  /\ turnModel = <<>>
  /\ staleUser = 0
  /\ staleModel = 0
  /\ received = NoFrame
  /\ log = <<>>
  /\ script = <<>>

\* no earlier client, and no sample under conversion
NoRun ==
  [done |-> FALSE, script |-> <<>>, log |-> <<>>, scheduled |-> <<>>,
   nextPlayTime |-> 0]
NoSamples == [stage |-> "none", input |-> 0, value |-> 0]
Alone == first = NoRun /\ samples = NoSamples

Init == Constructed /\ Alone /\ recording = {}

\* ------------------------------------------------- promises and WebSocket
\* resolve() or reject() of the promise of connect() call k; settling a
\* promise that is already settled, or an undefined function, does nothing
Settle(k, outcome) ==
  IF k # 0 /\ promise[k] = "pending"
  THEN [promise EXCEPT ![k] = outcome]
  ELSE promise

\* WebSocket.send(): throws InvalidStateError while CONNECTING, writes the
\* frame when OPEN, silently discards it once closing or closed
SendThrows(c) == sock[c] = "CONNECTING"
Written(c, frame) ==
  IF sock[c] = "OPEN" THEN [out EXCEPT ![c] = Append(@, frame)] ELSE out

\* WebSocket.close(): a socket that is not yet established is failed (its
\* error event precedes its close event), an open one starts the closing
\* handshake, a closing or closed one is left alone
Closing(state) ==
  CASE state = "CONNECTING" -> "FAILING"
    [] state = "OPEN" -> "CLOSING"
    [] OTHER -> state

\* the events of one socket are dispatched in one task: the close event
\* follows the error event before any other transport event is delivered
MidDispatch == \E c \in Conns : sock[c] = "ERRORED"

\* the index of the next connect() call
NextCall == Cardinality({k \in Conns : promise[k] # "none"}) + 1

ContentFrames == {"clientContent", "realtimeInputAudio", "realtimeInputVideo"}
ContentCount(frames) ==
  Cardinality({i \in 1..Len(frames) : frames[i] \in ContentFrames})

\* the role and content of each Message, in the order of delivery
IsMessage(call) == call.cb = "onMessage"
Messages(calls) == SelectSeq(calls, IsMessage)
Plain(calls) == [i \in 1..Len(calls) |-> <<calls[i].type, calls[i].content>>]

Observe(name, didThrow, calls, didFlush) ==
  /\ op' = name
  /\ threw' = didThrow
  /\ fired' = calls
  /\ flush' = didFlush
  /\ recording' = recording
  /\ log' = IF "messages" \in recording
             THEN log \o Plain(Messages(calls)) ELSE log
  /\ UNCHANGED <<first, samples>>

\* the frame is kept only by an application that keeps what it is given
Heard(f) ==
  /\ received' = IF "frames" \in recording THEN f ELSE NoFrame
  /\ script' = IF "script" \in recording /\ f.kind = "serverContent"
                THEN Append(script, [frame |-> f, time |-> clock])
                ELSE script

\* ------------------------------------------------------------- connect()
\* a new socket is created and stored, resolve and reject of the new promise
\* replace the stored ones, the four handlers are attached
Connect ==
  /\ NextCall \in Conns
  /\ LET k == NextCall IN
       /\ ws' = k
       /\ sock' = [sock EXCEPT ![k] = "CONNECTING"]
       /\ connectResolve' = k
       /\ connectReject' = k
       /\ promise' = [promise EXCEPT ![k] = "pending"]
  /\ Observe("connect", FALSE, <<>>, NoFlush) /\ Heard(NoFrame)
  /\ UNCHANGED <<isConnected, transcriptVars, playbackVars, captureVars,
                 out, deviceOk, histVars>>

\* the WebSocket constructor throws: the promise is rejected at once and no
\* field of the client is assigned
ConnectThrows ==
  /\ NextCall \in Conns
  /\ promise' = [promise EXCEPT ![NextCall] = "rejected"]
  /\ Observe("connect", FALSE, <<>>, NoFlush) /\ Heard(NoFrame)
  /\ UNCHANGED <<sessionVars, transcriptVars, playbackVars, captureVars,
                 sock, out, deviceOk, histVars>>

\* ws.onopen of socket c: sendSetupMessage writes to this.ws, the socket the
\* client holds when the event is delivered
SockOpen(c) ==
  /\ ~MidDispatch
  /\ sock[c] = "CONNECTING"
  /\ sock' = [sock EXCEPT ![c] = "OPEN"]
  /\ LET target == ws
         state == IF target = NoSock THEN "NONE" ELSE sock'[target]
     IN /\ out' = IF state = "OPEN"
                  THEN [out EXCEPT ![target] = Append(@, "setup")]
                  ELSE out
        /\ Observe("onopen", state = "CONNECTING", <<>>, NoFlush) /\ Heard(NoFrame)
  /\ UNCHANGED <<sessionVars, transcriptVars, playbackVars, captureVars,
                 promise, deviceOk, histVars>>

\* ws.onerror of socket c
SockError(c) ==
  /\ ~MidDispatch
  /\ sock[c] \in {"CONNECTING", "OPEN", "CLOSING", "FAILING"}
  /\ sock' = [sock EXCEPT ![c] = "ERRORED"]
  /\ promise' = Settle(connectReject, "rejected")
  /\ Observe("onerror", FALSE, <<Call("onError")>>, NoFlush) /\ Heard(NoFrame)
  /\ UNCHANGED <<sessionVars, transcriptVars, playbackVars, captureVars,
                 out, deviceOk, histVars>>

\* ws.onclose of socket c
SockClose(c) ==
  /\ sock[c] = "ERRORED" \/ (~MidDispatch /\ sock[c] \in {"OPEN", "CLOSING"})
  /\ sock' = [sock EXCEPT ![c] = "CLOSED"]
  /\ isConnected' = FALSE
  /\ promise' = IF ~isConnected' /\ connectReject # 0
                THEN Settle(connectReject, "rejected")
                ELSE promise
  /\ Observe("onclose", FALSE, <<Call("onDisconnect")>>, NoFlush) /\ Heard(NoFrame)
  /\ UNCHANGED <<ws, connectResolve, connectReject, transcriptVars,
                 playbackVars, captureVars, out, deviceOk, histVars>>

\* ------------------------------------- sendText, sendAudio, sendVideoFrame
\* the early return shared by the three send methods
SendGuard_socketOnly(w, connected) == w = NoSock
SendGuard(w, connected) == w = NoSock \/ ~connected

\* one send call: the guard, ws.send of the frame, then the callbacks
Send(name, frame, calls) ==
  /\ IF ws # NoSock /\ sock[ws] = "OPEN"
     THEN SendGuard(ws, isConnected) \/ ContentCount(out[ws]) < MaxOut
     ELSE TRUE
  /\ IF SendGuard(ws, isConnected)
     THEN Observe(name, FALSE, <<>>, NoFlush) /\ Heard(NoFrame) /\ UNCHANGED <<out, early>>
     ELSE IF SendThrows(ws)
     THEN Observe(name, TRUE, <<>>, NoFlush) /\ Heard(NoFrame) /\ UNCHANGED <<out, early>>
     ELSE /\ out' = Written(ws, frame)
          /\ early' = IF sock[ws] = "OPEN" /\ ws \notin acked
                      THEN early \cup {ws} ELSE early
          /\ Observe(name, FALSE, calls, NoFlush) /\ Heard(NoFrame)
  /\ UNCHANGED <<sessionVars, transcriptVars, playbackVars, captureVars,
                 sock, promise, deviceOk, acked, nOnConnect, closeCalls,
                 discarded>>

\* sendText without its onMessage call
SendText_silent(text) == Send("sendText", "clientContent", <<>>)
SendText(text) ==
  Send("sendText", "clientContent", <<MessageCall("user", text, 0)>>)

SendAudio == Send("sendAudio", "realtimeInputAudio", <<>>)

SendVideoFrame == Send("sendVideoFrame", "realtimeInputVideo", <<>>)

\* ------------------------------------- startMicrophone, stopMicrophone
\* startMicrophone() up to its await: the input device is requested
StartMicrophone ==
  /\ micPending < MaxMics
  /\ micPending' = micPending + 1
  /\ Observe("startMicrophone", FALSE, <<>>, NoFlush) /\ Heard(NoFrame)
  /\ UNCHANGED <<sessionVars, transcriptVars, playbackVars, mediaStream,
                 audioContext, micStale, liveStreams, liveContexts, wireVars,
                 deviceOk, histVars>>

\* the browser answers one of the pending requests, one made before the last
\* stopMicrophone() or disconnect() or one made after it: the values micStale
\* may take
Answered ==
  {m \in {micStale - 1, micStale} : m >= 0 /\ m <= micPending - 1}

\* getUserMedia resolves: the stream and a new capture context replace the
\* stored ones, which are neither stopped nor closed, and the block processor
\* is attached
MicrophoneGranted ==
  /\ micPending > 0
  /\ liveStreams < MaxMics
  /\ micPending' = micPending - 1
  /\ micStale' \in Answered
  /\ mediaStream' = TRUE
  /\ audioContext' = TRUE
  /\ liveStreams' = liveStreams + 1
  /\ liveContexts' = liveContexts + 1
  /\ Observe("startMicrophone:granted", FALSE, <<>>, NoFlush) /\ Heard(NoFrame)
  /\ UNCHANGED <<sessionVars, transcriptVars, playbackVars, wireVars, deviceOk,
                 histVars>>

\* the failure reported through onError as well
MicrophoneDenied_reported ==
  /\ micPending > 0
  /\ micPending' = micPending - 1
  /\ micStale' \in Answered
  /\ Observe("startMicrophone:denied", TRUE, <<Call("onError")>>, NoFlush)
  /\ Heard(NoFrame)
  /\ UNCHANGED <<sessionVars, transcriptVars, playbackVars, mediaStream,
                 audioContext, liveStreams, liveContexts, wireVars, deviceOk,
                 histVars>>
\* getUserMedia rejects: the catch block rethrows, startMicrophone() rejects
MicrophoneDenied ==
  /\ micPending > 0
  /\ micPending' = micPending - 1
  /\ micStale' \in Answered
  /\ Observe("startMicrophone:denied", TRUE, <<>>, NoFlush) /\ Heard(NoFrame)
  /\ UNCHANGED <<sessionVars, transcriptVars, playbackVars, mediaStream,
                 audioContext, liveStreams, liveContexts, wireVars, deviceOk,
                 histVars>>

\* the body of stopMicrophone(): the stored stream is stopped and the stored
\* context closed, each if there is one
StoppedStreams == IF mediaStream THEN liveStreams - 1 ELSE liveStreams
ClosedContexts == IF audioContext THEN liveContexts - 1 ELSE liveContexts

StopMicrophone ==
  /\ mediaStream' = FALSE
  /\ audioContext' = FALSE
  /\ liveStreams' = StoppedStreams
  /\ liveContexts' = ClosedContexts
  /\ micStale' = micPending
  /\ Observe("stopMicrophone", FALSE, <<>>, NoFlush) /\ Heard(NoFrame)
  /\ UNCHANGED <<sessionVars, transcriptVars, playbackVars, micPending,
                 wireVars, deviceOk, histVars>>

\* processor.onaudioprocess of an open capture context: nothing while the
\* session is not connected, otherwise the block goes to sendAudio
AudioProcess ==
  /\ liveContexts > 0
  /\ Send("onaudioprocess", "realtimeInputAudio", <<>>)

\* ----------------------------------------------------------- disconnect()
\* this.ws = null
ReleasedSocket_kept(w) == w
ReleasedSocket(w) == NoSock

\* this.modelResponseBuffer = ''; this.userResponseBuffer = ''
ClearedBuffer_kept(buffer) == buffer
ClearedBuffer(buffer) == <<>>

Disconnect ==
  \* stopMicrophone()
  /\ mediaStream' = FALSE
  /\ audioContext' = FALSE
  /\ liveStreams' = StoppedStreams
  /\ liveContexts' = ClosedContexts
  /\ micStale' = micPending
  \* the playback context is closed and dropped; its sources never start
  /\ IF playbackContext # "null"
     THEN playbackContext' = "null" /\ clock' = 0 /\ scheduled' = <<>>
     ELSE UNCHANGED <<playbackContext, clock, scheduled>>
  /\ IF ws # NoSock
     THEN /\ sock' = [sock EXCEPT ![ws] = Closing(@)]
          /\ closeCalls' = [closeCalls EXCEPT ![ws] = Bump(@)]
          /\ ws' = ReleasedSocket(ws)
     ELSE UNCHANGED <<sock, closeCalls, ws>>
  /\ isConnected' = FALSE
  /\ audioQueue' = <<>>
  /\ modelResponseBuffer' = ClearedBuffer(modelResponseBuffer)
  /\ userResponseBuffer' = ClearedBuffer(userResponseBuffer)
  /\ turnUser' = <<>>
  /\ turnModel' = <<>>
  /\ staleUser' = Len(userResponseBuffer')
  /\ staleModel' = Len(modelResponseBuffer')
  /\ discarded' = (discarded \/ userResponseBuffer # <<>>
                      \/ modelResponseBuffer # <<>>)
  /\ Observe("disconnect", FALSE, <<>>, NoFlush) /\ Heard(NoFrame)
  /\ UNCHANGED <<connectResolve, connectReject, nextPlayTime, out, promise,
                 deviceOk, micPending, acked, early, nOnConnect>>

\* ------------------------------------------------------ playQueuedAudio()
\* the while loop: every queued part is scheduled at
\* max(ctx.currentTime, nextPlayTime) and moves nextPlayTime to its end
\* const startTime = Math.max(ctx.currentTime, this.nextPlayTime)
StartTime(currentTime, cursor) == Max(currentTime, cursor)

\* this.nextPlayTime = startTime + audioBuffer.duration
Cursor_kept(startTime) == startTime
Cursor(startTime) == startTime + PartDuration

RECURSIVE Drain(_)
Drain(st) ==
  IF st.audioQueue = <<>> THEN st
  ELSE LET startTime == StartTime(st.clock, st.nextPlayTime) IN
       Drain([st EXCEPT
                !.audioQueue = Tail(@),
                !.scheduled = Append(@, <<startTime, startTime + PartDuration>>),
                !.nextPlayTime = Cursor(startTime)])

\* playQueuedAudio with nextPlayTime set to the clock on every call
PlayQueuedAudio_resetting(st, available) ==
  IF st.audioQueue = <<>> THEN st
  ELSE IF st.playbackContext = "null" /\ ~available THEN st
  ELSE IF st.playbackContext = "null"
  THEN Drain([st EXCEPT !.playbackContext = "running",
                        !.clock = 0, !.nextPlayTime = 0])
  ELSE Drain([st EXCEPT !.nextPlayTime = st.clock])
\* st holds audioQueue, playbackContext, nextPlayTime, clock and scheduled.
\* A missing context is created first: its clock starts at 0 and nextPlayTime
\* is set to it; when no output device can be opened the constructor throws
\* and the catch block leaves the queue as it is
PlayQueuedAudio(st, available) ==
  IF st.audioQueue = <<>> THEN st
  ELSE IF st.playbackContext = "null" /\ ~available THEN st
  ELSE IF st.playbackContext = "null"
  THEN Drain([st EXCEPT !.playbackContext = "running",
                        !.clock = 0, !.nextPlayTime = 0])
  ELSE Drain(st)

\* ---------------------------------------------------------- handleMessage
\* the frames the service may send
AudioLists == {<<>>} \cup {<<p>> : p \in AudioParts}
Contents ==
  [interrupted : BOOLEAN, audio : AudioLists, input : Chunks, output : Chunks,
   turnComplete : BOOLEAN]
Frames ==
  {Frame(k, NoContent) : k \in {"malformed", "setupComplete", "other"}}
    \cup {Frame("serverContent", c) : c \in Contents}

\* the loop over modelTurn.parts: each inlineData part is decoded, queued,
\* reported through onAudio and played; a part whose base64 text is invalid
\* makes atob() throw, which ends the handler in its catch block
RECURSIVE ProcessParts(_, _, _)
ProcessParts(parts, st, available) ==
  IF parts = <<>> THEN st
  ELSE IF Head(parts) = "badBase64" THEN [st EXCEPT !.thrown = TRUE]
  ELSE LET queued == [st EXCEPT !.audioQueue = Append(@, Head(parts)),
                                !.calls = Append(@, Call("onAudio"))]
       IN ProcessParts(Tail(parts), PlayQueuedAudio(queued, available), available)

\* the turnComplete branch for one buffer: a message with the trimmed text is
\* emitted and the buffer cleared only when the trimmed text is not empty
FlushBuffer_untrimmed(buffer) ==
  IF buffer # <<>>
  THEN [emit |-> TRUE, content |-> buffer, rest |-> <<>>]
  ELSE [emit |-> FALSE, content |-> <<>>, rest |-> buffer]
FlushBuffer_unguarded(buffer) ==
  [emit |-> TRUE, content |-> Trim(buffer), rest |-> <<>>]
FlushBuffer(buffer) ==
  IF Trim(buffer) # <<>>
  THEN [emit |-> TRUE, content |-> Trim(buffer), rest |-> <<>>]
  ELSE [emit |-> FALSE, content |-> <<>>, rest |-> buffer]

\* the characters of Trim(buffer) that belong to the first `stale` characters
\* of buffer
StaleIn(buffer, stale) ==
  LET lead == Len(buffer) - Len(TrimStart(buffer))
  IN Min(Max(stale - lead, 0), Len(Trim(buffer)))

\* the playback fields with a cursor that restarts at the clock whenever no
\* model text is buffered
PlaybackState_turnScoped ==
  [audioQueue |-> audioQueue, playbackContext |-> playbackContext,
   nextPlayTime |-> IF modelResponseBuffer = <<>> THEN clock ELSE nextPlayTime,
   clock |-> clock, scheduled |-> scheduled,
   calls |-> <<>>, thrown |-> FALSE]
\* the playback fields on entry to the handler
PlaybackState ==
  [audioQueue |-> audioQueue, playbackContext |-> playbackContext,
   nextPlayTime |-> nextPlayTime, clock |-> clock, scheduled |-> scheduled,
   calls |-> <<>>, thrown |-> FALSE]

\* the serverContent branch when the frame is not an interruption
ServerContent(f) ==
  LET st == ProcessParts(f.audio, PlaybackState, deviceOk)
      user == IF st.thrown THEN userResponseBuffer
              ELSE userResponseBuffer \o f.input
      model == IF st.thrown THEN modelResponseBuffer
               ELSE modelResponseBuffer \o f.output
      turn == ~st.thrown /\ f.turnComplete
      fu == FlushBuffer(user)
      fm == FlushBuffer(model)
      userCall == IF turn /\ fu.emit
                  THEN <<MessageCall("user", fu.content, StaleIn(user, staleUser))>>
                  ELSE <<>>
      modelCall == IF turn /\ fm.emit
                   THEN <<MessageCall("model", fm.content, StaleIn(model, staleModel))>>
                   ELSE <<>>
      turnCall == IF turn THEN <<Call("onTurnComplete")>> ELSE <<>>
  IN /\ audioQueue' = st.audioQueue
     /\ playbackContext' = st.playbackContext
     /\ nextPlayTime' = st.nextPlayTime
     /\ clock' = st.clock
     /\ scheduled' = st.scheduled
     /\ userResponseBuffer' = IF turn THEN fu.rest ELSE user
     /\ modelResponseBuffer' = IF turn THEN fm.rest ELSE model
     /\ turnUser' = IF turn THEN <<>>
                    ELSE IF st.thrown THEN turnUser ELSE turnUser \o f.input
     /\ turnModel' = IF turn THEN <<>>
                     ELSE IF st.thrown THEN turnModel ELSE turnModel \o f.output
     /\ staleUser' = IF turn /\ fu.emit THEN 0 ELSE staleUser
     /\ staleModel' = IF turn /\ fm.emit THEN 0 ELSE staleModel
     /\ Observe("onmessage", FALSE, st.calls \o userCall \o modelCall \o turnCall,
                IF turn
                THEN Flushed(user, model, turnUser \o f.input, turnModel \o f.output)
                ELSE NoFlush)
     /\ UNCHANGED <<isConnected, promise, acked, nOnConnect>>

\* the interrupted branch: the audio queue is emptied, onInterrupted is
\* called and the handler returns
Interruption_clearing ==
  /\ audioQueue' = <<>>
  /\ userResponseBuffer' = <<>>
  /\ modelResponseBuffer' = <<>>
  /\ Observe("onmessage", FALSE, <<Call("onInterrupted")>>, NoFlush)
  /\ UNCHANGED <<isConnected, promise, acked, nOnConnect, turnUser, turnModel,
                 staleUser, staleModel, playbackContext, nextPlayTime, clock,
                 scheduled>>
Interruption ==
  /\ audioQueue' = <<>>
  /\ Observe("onmessage", FALSE, <<Call("onInterrupted")>>, NoFlush)
  /\ UNCHANGED <<isConnected, promise, acked, nOnConnect, transcriptVars,
                 playbackContext, nextPlayTime, clock, scheduled>>

\* JSON.parse throws: the catch block logs the error
ParseError_reported ==
  /\ Observe("onmessage", FALSE, <<Call("onError")>>, NoFlush)
  /\ UNCHANGED <<isConnected, promise, acked, nOnConnect, transcriptVars,
                 playbackVars>>
ParseError ==
  /\ Observe("onmessage", FALSE, <<>>, NoFlush)
  /\ UNCHANGED <<isConnected, promise, acked, nOnConnect, transcriptVars,
                 playbackVars>>

\* handleMessage(data) for a frame received on socket c
HandleMessage(c, f) ==
  CASE f.kind = "setupComplete" ->
         /\ isConnected' = TRUE
         /\ promise' = Settle(connectResolve, "resolved")
         /\ acked' = acked \cup {c}
         /\ nOnConnect' = [nOnConnect EXCEPT ![c] = Bump(@)]
         /\ Observe("onmessage", FALSE, <<Call("onConnect")>>, NoFlush)
         /\ UNCHANGED <<transcriptVars, playbackVars>>
    [] f.kind = "malformed" -> ParseError
    [] f.kind = "serverContent" /\ f.interrupted -> Interruption
    [] f.kind = "serverContent" /\ ~f.interrupted -> ServerContent(f)
    [] OTHER ->
         /\ Observe("onmessage", FALSE, <<>>, NoFlush)
         /\ UNCHANGED <<isConnected, promise, acked, nOnConnect, transcriptVars,
                        playbackVars>>

\* ws.onmessage of socket c: message events are dispatched only while the
\* socket is OPEN, and the service sends nothing on a connection before it
\* has received that connection's setup frame
SockMessage(c, f) ==
  /\ ~MidDispatch
  /\ sock[c] = "OPEN"
  /\ out[c] # <<>>
  /\ HandleMessage(c, f)
  /\ Heard(f)
  /\ UNCHANGED <<ws, connectResolve, connectReject, captureVars, sock, out,
                 deviceOk, early, closeCalls, discarded>>

\* time passes on the clock of the playback context
Tick ==
  /\ playbackContext = "running"
  /\ clock' = clock + 1
  /\ Observe("tick", FALSE, <<>>, NoFlush) /\ Heard(NoFrame)
  /\ UNCHANGED <<sessionVars, transcriptVars, audioQueue, playbackContext,
                 nextPlayTime, scheduled, captureVars, wireVars, deviceOk,
                 histVars>>

\* the output device is unplugged or plugged in again
DeviceChange ==
  /\ deviceOk' = ~deviceOk
  /\ Observe("devicechange", FALSE, <<>>, NoFlush) /\ Heard(NoFrame)
  /\ UNCHANGED <<sessionVars, transcriptVars, playbackVars, captureVars,
                 wireVars, histVars>>

\* the application drops the client and constructs a new one, keeping what
\* the old one was given and what it delivered and scheduled
Restart ==
  /\ "script" \in recording
  /\ ~first.done
  /\ first' = [done |-> TRUE, script |-> script, log |-> log,
               scheduled |-> scheduled, nextPlayTime |-> nextPlayTime]
  /\ UNCHANGED <<recording, samples>>
  \* the fields and the environment of a new client
  /\ ws' = NoSock
  /\ isConnected' = FALSE
  /\ connectResolve' = 0
  /\ connectReject' = 0
  /\ userResponseBuffer' = <<>>
  /\ modelResponseBuffer' = <<>>
  /\ audioQueue' = <<>>
  /\ playbackContext' = "null"
  /\ nextPlayTime' = 0
  /\ mediaStream' = FALSE
  /\ audioContext' = FALSE
  /\ sock' = [c \in Conns |-> "NONE"]
  /\ out' = [c \in Conns |-> <<>>]
  /\ promise' = [c \in Conns |-> "none"]
  /\ clock' = 0
  /\ scheduled' = <<>>
  /\ deviceOk' = TRUE
  /\ micPending' = 0
  /\ micStale' = 0
  /\ liveStreams' = 0
  /\ liveContexts' = 0
  /\ op' = "new"
  /\ threw' = FALSE
  /\ fired' = <<>>
  /\ acked' = {}
  /\ early' = {}
  /\ nOnConnect' = [c \in Conns |-> 0]
  /\ closeCalls' = [c \in Conns |-> 0]
  /\ flush' = NoFlush
  /\ discarded' = FALSE
  /\ turnUser' = <<>>
  /\ turnModel' = <<>>
  /\ staleUser' = 0
  /\ staleModel' = 0
  /\ received' = NoFrame
  /\ log' = <<>>
  /\ script' = <<>>

\* sample x of a captured block goes through the loop of onaudioprocess
Encode(x) ==
  /\ samples.stage = "none"
  /\ samples' = [stage |-> "encoded", input |-> x, value |-> Float32ToPcm16(x)]
  /\ UNCHANGED <<clientVars, first>>

\* sample p of a received part goes through the loop of playQueuedAudio
Decode(p) ==
  /\ samples.stage = "none"
  /\ samples' = [stage |-> "decoded", input |-> p, value |-> Pcm16ToFloat32(p)]
  /\ UNCHANGED <<clientVars, first>>

\* a decoded sample is captured again
Reencode ==
  /\ samples.stage = "decoded"
  /\ samples' = [stage |-> "reencoded", input |-> samples.input,
                 value |-> Float32ToPcm16(samples.value)]
  /\ UNCHANGED <<clientVars, first>>

\* ------------------------------------------------------ the specification
\* frame f keeps the transcript buffers and the playback cursor within bounds
Fits(f, maxBuf) ==
  /\ Len(userResponseBuffer \o f.input) <= maxBuf
  /\ Len(modelResponseBuffer \o f.output) <= maxBuf
  /\ LET st == ProcessParts(f.audio, PlaybackState, deviceOk)
     IN st.nextPlayTime <= MaxTime /\ Len(st.audioQueue) <= MaxQueue

\* the service acknowledges a connection's setup frame once
AcksOnce(c, f) == f.kind = "setupComplete" => c \notin acked

\* an interruption returns before it looks at the rest of the frame: one
\* interrupted frame with and one without turnComplete stand for all
OnlyInterrupted(f) == f.audio = <<>> /\ f.input = <<>> /\ f.output = <<>>

\* The handshake specification: every call of the client and every transport
\* event, with frames that carry at most the user chunk "a".
HandshakeFrames ==
  {f \in Frames : /\ f.input \in {<<>>, <<"a">>}
                  /\ f.output = <<>>
                  /\ f.audio = <<>>
                  /\ ~f.interrupted}

Next ==
  \/ Connect
  \/ ConnectThrows
  \/ \E c \in Conns : SockOpen(c)
  \/ \E c \in Conns, f \in HandshakeFrames :
       Fits(f, MaxBufSession) /\ SockMessage(c, f)
  \/ \E c \in Conns : SockError(c)
  \/ \E c \in Conns : SockClose(c)
  \/ \E t \in Texts : SendText(t)
  \/ SendAudio
  \/ SendVideoFrame
  \/ Disconnect

Spec == Init /\ [][Next]_vars

\* The teardown specification: disconnect() against transcript buffers, an
\* audio queue and a playback context that hold something.
TeardownFrames ==
  {f \in Frames : /\ f.kind \in {"setupComplete", "serverContent"}
                  /\ f.input \in {<<>>, <<"a">>}
                  /\ f.output \in {<<>>, <<"a">>}
                  /\ f.audio \in {<<>>, <<"pcm">>}
                  /\ f.interrupted => OnlyInterrupted(f)}

NextTeardown ==
  \/ Connect
  \/ \E c \in Conns : SockOpen(c)
  \/ \E c \in Conns, f \in TeardownFrames :
       Fits(f, MaxBufSession) /\ AcksOnce(c, f) /\ SockMessage(c, f)
  \/ \E c \in Conns : SockError(c)
  \/ \E c \in Conns : SockClose(c)
  \/ Disconnect
  \/ DeviceChange

SpecTeardown == Init /\ [][NextTeardown]_vars

\* The turn specification: the receive dispatcher against every combination
\* of transcript chunks over Chars.
\* The application closes one connection before it opens the next.
TurnFrames ==
  {f \in Frames : f.audio = <<>> /\ (f.interrupted => OnlyInterrupted(f))}

NextTurn ==
  \/ ws = NoSock /\ Connect
  \/ \E c \in Conns : SockOpen(c)
  \/ \E c \in Conns, f \in TurnFrames :
       Fits(f, MaxBuf) /\ AcksOnce(c, f) /\ SockMessage(c, f)
  \/ \E c \in Conns : SockClose(c)
  \/ Disconnect

SpecTurn == Init /\ [][NextTurn]_vars

\* The happy-path specification: one connection of a new client whose
\* application keeps the Messages it is given; after the acknowledgement one
\* sendText, then frames that carry output transcription only, up to the
\* first turnComplete.
InitHappy == Constructed /\ Alone /\ recording = {"messages"}

OutputFrames ==
  {f \in Frames : /\ f.kind = "serverContent"
                  /\ ~f.interrupted
                  /\ f.audio = <<>>
                  /\ f.input = <<>>}

NextHappy ==
  \/ NextCall = 1 /\ Connect
  \/ SockOpen(1)
  \/ /\ 1 \notin acked
     /\ SockMessage(1, Frame("setupComplete", NoContent))
  \/ \E t \in Texts :
       isConnected /\ ContentCount(out[1]) = 0 /\ SendText(t)
  \/ \E f \in OutputFrames :
       /\ ContentCount(out[1]) = 1
       /\ ~flush.done
       /\ Fits(f, MaxBufHappy)
       /\ SockMessage(1, f)

SpecHappy == InitHappy /\ [][NextHappy]_vars

\* a client whose application keeps the frames it is given
InitRecorded == Constructed /\ Alone /\ recording = {"frames"}

\* The playback specification: audio parts and interruptions arriving at any
\* time of the playback clock, over connections that the application closes
\* before it opens the next, with an output device that may go away.
PlaybackFrames ==
  {f \in Frames : /\ f.kind \in {"setupComplete", "serverContent"}
                  /\ f.input = <<>>
                  /\ f.output = <<>>
                  /\ ~f.turnComplete
                  /\ f.audio \in {<<>>, <<"pcm">>}
                  /\ f.interrupted => OnlyInterrupted(f)}

\* frame f keeps the playback cursor and the audio queue within bounds
FitsPlayback(f) ==
  LET st == ProcessParts(f.audio, PlaybackState, deviceOk)
  IN st.nextPlayTime <= MaxPlayTime /\ Len(st.audioQueue) <= MaxQueue

NextPlayback ==
  \/ ws = NoSock /\ Connect
  \/ \E c \in Conns : SockOpen(c)
  \/ \E c \in Conns, f \in PlaybackFrames :
       FitsPlayback(f) /\ AcksOnce(c, f) /\ SockMessage(c, f)
  \/ clock < MaxPlayTime /\ Tick
  \/ Disconnect
  \/ DeviceChange

SpecPlayback == InitRecorded /\ [][NextPlayback]_vars

\* The dispatch specification: every frame the service may send, malformed
\* ones and frames that carry several events included, on one connection.
DispatchFrames ==
  {f \in Frames : /\ f.input \in {<<>>, <<"a">>, <<" ">>}
                  /\ f.output \in {<<>>, <<"a">>, <<" ">>}}

NextDispatch ==
  \/ NextCall = 1 /\ Connect
  \/ SockOpen(1)
  \/ \E f \in DispatchFrames :
       Fits(f, MaxBuf) /\ AcksOnce(1, f) /\ SockMessage(1, f)

SpecDispatch == InitRecorded /\ [][NextDispatch]_vars

\* The capture specification: the microphone calls and the block processor
\* against the life of connections that the application closes before it
\* opens the next.
NextCapture ==
  \/ ws = NoSock /\ Connect
  \/ \E c \in Conns : SockOpen(c)
  \/ \E c \in Conns :
       c \notin acked /\ SockMessage(c, Frame("setupComplete", NoContent))
  \/ \E c \in Conns : SockError(c)
  \/ \E c \in Conns : SockClose(c)
  \/ StartMicrophone
  \/ MicrophoneGranted
  \/ MicrophoneDenied
  \/ StopMicrophone
  \/ AudioProcess
  \/ \E t \in Texts : SendText(t)
  \/ Disconnect

SpecCapture == Init /\ [][NextCapture]_vars

\* The conversion specification: every float sample of the capture input
\* range is encoded, and every PCM sample is decoded and encoded again.
NextCodec ==
  \/ samples = NoSamples /\ \E x \in FloatSamples : Encode(x)
  \/ samples = NoSamples /\ \E p \in PcmSamples : Decode(p)
  \/ Reencode

SpecCodec == Init /\ [][NextCodec]_vars

\* The interleaving specification: an application that keeps what it is
\* given runs one client over a sequence of frames that carry one event each
\* (an audio part, a user chunk, a model chunk or turnComplete), then a new
\* client over another such sequence.
InitInterleave ==
  Constructed /\ Alone /\ recording = {"messages", "script"}

EventCount(f) ==
  Len(f.audio) + Len(f.input) + Len(f.output) + (IF f.turnComplete THEN 1 ELSE 0)

InterleaveFrames ==
  {f \in Frames : /\ f.kind = "serverContent"
                  /\ ~f.interrupted
                  /\ f.audio \in {<<>>, <<"pcm">>}
                  /\ f.input \in {<<>>, <<"a">>}
                  /\ f.output \in {<<>>, <<"a">>}
                  /\ EventCount(f) = 1}

NextInterleave ==
  \/ NextCall = 1 /\ Connect
  \/ SockOpen(1)
  \/ /\ 1 \notin acked
     /\ SockMessage(1, Frame("setupComplete", NoContent))
  \/ \E f \in InterleaveFrames :
       isConnected /\ Len(script) < MaxScript /\ SockMessage(1, f)
  \/ clock < MaxScriptTime /\ Tick
  \/ Restart

SpecInterleave == InitInterleave /\ [][NextInterleave]_vars

\* ---------------------------------------------------------------- claims
SetupCount(frames) ==
  Cardinality({i \in 1..Len(frames) : frames[i] = "setup"})
SendOps == {"sendText", "sendAudio", "sendVideoFrame"}

\* C1: the session is Active only on a connection that has been
\* acknowledged: whenever connected is true, the socket the client holds (the
\* one the latest connect() opened) has received setupComplete.
C1_ActiveOnlyWhenAcknowledged ==
  isConnected => (ws # NoSock /\ ws \in acked)

\* C2: the frames of one connection invoke onConnect exactly once if a
\* setupComplete arrived on it and never otherwise, however many
\* setupComplete frames arrive.
C2_OnConnectOncePerConnection ==
  \A c \in Conns : nOnConnect[c] = IF c \in acked THEN 1 ELSE 0

\* C3: once the error or close event of a connection that was never
\* acknowledged has been handled, the promise of the connect() call that
\* opened it is rejected, and the session is not Active on it.
C3_FailureBeforeAckRejects ==
  \A c \in Conns :
    (sock[c] \in {"ERRORED", "CLOSED"} /\ c \notin acked)
      => (promise[c] = "rejected" /\ (ws = c => ~isConnected))

\* C4: a send call made while the session is not Active writes no frame,
\* invokes no callback, does not throw and leaves the connection state, the
\* transcript buffers, the audio queue and nextPlayTime as they were.
C4_SendWhenNotActiveIsNoOp ==
  [][(op' \in SendOps /\ ~isConnected)
       => /\ out' = out
          /\ fired' = <<>>
          /\ ~threw'
          /\ UNCHANGED <<sessionVars, sock, userResponseBuffer,
                         modelResponseBuffer, audioQueue, nextPlayTime>>]_vars

\* a send call has returned on a client that holds an open socket whose
\* setupComplete has not arrived
C4_Witness ==
  /\ op \in SendOps
  /\ ~isConnected
  /\ ws # NoSock
  /\ sock[ws] = "OPEN"
  /\ out[ws] = <<"setup">>

\* C5: on every connection the setup frame is written exactly once, before
\* any other frame, and no clientContent or realtimeInput frame is written
\* before the connection's setupComplete has been received.
C5_SetupFirstAndOnce ==
  \A c \in Conns :
    /\ SetupCount(out[c]) <= 1
    /\ out[c] # <<>> => out[c][1] = "setup"
    /\ sock[c] = "OPEN" => out[c] # <<>>
    /\ c \notin early

\* C6: disconnect() does not throw and leaves the client disconnected, with
\* no socket, an empty audio queue and empty transcript buffers; no socket
\* is ever closed twice, and a disconnect() that follows a disconnect()
\* changes nothing.
C6_DisconnectIdempotent ==
  [][op' = "disconnect"
       => /\ ~threw'
          /\ ~isConnected'
          /\ ws' = NoSock
          /\ audioQueue' = <<>>
          /\ userResponseBuffer' = <<>>
          /\ modelResponseBuffer' = <<>>
          /\ \A c \in Conns : closeCalls'[c] <= 1
          /\ op = "disconnect"
               => UNCHANGED <<sessionVars, transcriptVars, playbackVars,
                              captureVars, wireVars, closeCalls>>]_vars

\* disconnect() has returned on a client that was Active on an acknowledged
\* connection, with text in a transcript buffer
C6_Witness ==
  /\ op = "disconnect"
  /\ discarded
  /\ \E c \in Conns : c \in acked /\ sock[c] = "CLOSING" /\ closeCalls[c] = 1

\* C7: disconnect() invokes no callback, and no Message emitted at any time
\* contains text that was accumulated before the last disconnect().
C7_DisconnectDiscardsTranscripts ==
  /\ op = "disconnect" => fired = <<>>
  /\ \A i \in 1..Len(fired) : fired[i].stale = 0

\* a Message has been emitted on a client whose earlier disconnect() cleared
\* a buffer that held text
C7_Witness ==
  /\ discarded
  /\ op = "onmessage"
  /\ Messages(fired) # <<>>

\* one Message of the role when the text is not empty
MessageIf(role, text) == IF text # <<>> THEN <<<<role, text>>>> ELSE <<>>
Count(calls, role) ==
  Cardinality({i \in 1..Len(calls) : calls[i].cb = "onMessage" /\ calls[i].type = role})

\* C8 as stated: the turnComplete branch delivers one user Message if the
\* user buffer is not empty, then one model Message if the model buffer is
\* not empty, and the content of each is the text of its role's chunks since
\* the previous turn boundary, as received.
C8_TurnMessagesAsReceived ==
  flush.done =>
    /\ Plain(Messages(fired)) =
         MessageIf("user", flush.bufUser) \o MessageIf("model", flush.bufModel)
    /\ flush.bufUser = flush.user
    /\ flush.bufModel = flush.model

\* C8 as amended: the turnComplete branch delivers one user Message if the
\* user text received since the previous turn boundary (a processed
\* turnComplete or a disconnect()) holds a character that is not whitespace,
\* then one model Message under the same condition; the content of each is
\* that text with its leading and trailing whitespace removed.
C8_TurnMessagesTrimmed ==
  flush.done =>
    Plain(Messages(fired)) =
      MessageIf("user", Trim(flush.user)) \o MessageIf("model", Trim(flush.model))

\* a turn has been flushed into a user Message and a model Message, and the
\* user text of the turn ended in whitespace
C8_Witness ==
  /\ flush.done
  /\ Len(Messages(fired)) = 2
  /\ flush.user # Trim(flush.user)
  /\ Trim(flush.user) # <<>>

\* C9: right after the turnComplete branch has run both transcript buffers
\* are empty, and each buffer that held text, whitespace included, has
\* produced exactly one Message.
C9_BuffersEmptyAfterTurn ==
  flush.done =>
    /\ userResponseBuffer = <<>>
    /\ modelResponseBuffer = <<>>
    /\ Count(fired, "user") = IF flush.bufUser # <<>> THEN 1 ELSE 0
    /\ Count(fired, "model") = IF flush.bufModel # <<>> THEN 1 ELSE 0

\* C10: the turnComplete branch delivers no Message when it finds both
\* transcript buffers empty.
C10_EmptyTurnEmitsNothing ==
  (flush.done /\ flush.bufUser = <<>> /\ flush.bufModel = <<>>)
    => Messages(fired) = <<>>

\* a turnComplete has been processed with both buffers empty
C10_Witness ==
  /\ flush.done
  /\ flush.bufUser = <<>>
  /\ flush.bufModel = <<>>
  /\ fired = <<Call("onTurnComplete")>>

\* C11 as stated: over the happy-path exchange (connect, acknowledgement, one
\* sendText, output transcription chunks, turnComplete) exactly one Message
\* is delivered; its role is model and its content is the concatenation of
\* the chunks.
C11_HappyPathOneModelMessage ==
  flush.done => log = <<<<"model", flush.model>>>>

\* C11 as amended: over the happy-path exchange the Messages delivered are
\* the user Message that sendText itself delivers, and then one model Message
\* whose content is the concatenation of the chunks without its leading and
\* trailing whitespace, delivered only if that content is not empty.
C11_HappyPathUserThenModel ==
  flush.done =>
    /\ log # <<>>
    /\ log[1][1] = "user"
    /\ log[1][2] \in Texts
    /\ Tail(log) = MessageIf("model", Trim(flush.model))

\* the exchange has ended with a user Message and a model Message, the model
\* text made of two chunks of which one is whitespace
C11_Witness ==
  /\ flush.done
  /\ Len(log) = 2
  /\ Len(flush.model) = 2
  /\ flush.model # Trim(flush.model)

\* the last operation was an onmessage that scheduled at least one audio part
Enqueued == op' = "onmessage" /\ scheduled' # scheduled

\* C12 as stated: nextPlayTime after an enqueue is never below its value
\* before that enqueue, the first enqueue after disconnect() closed the
\* playback device included.
C12_CursorNeverDecreases ==
  [][Enqueued => nextPlayTime' >= nextPlayTime]_vars

\* C12 as amended: nextPlayTime after an enqueue is never below its value
\* before that enqueue whenever the enqueue finds the playback device open.
C12_CursorMonotonicPerDevice ==
  [][(Enqueued /\ playbackContext = "running")
       => nextPlayTime' >= nextPlayTime]_vars

\* a part has been scheduled behind another one on a device that was open,
\* after the clock had passed the cursor
C12_Witness ==
  /\ op = "onmessage"
  /\ Len(scheduled) >= 2
  /\ scheduled[Len(scheduled)][1] > scheduled[Len(scheduled) - 1][2]
  /\ nextPlayTime = scheduled[Len(scheduled)][2]

\* the end of the buffer scheduled before entry i of a schedule, the clock
\* time when there is none
PreviousEnd(sched, i, now) == IF i = 1 THEN now ELSE sched[i - 1][2]

\* C13: every buffer that an enqueue schedules starts at the later of the
\* clock time and the end of the buffer scheduled before it, and leaves
\* nextPlayTime at its own end; no two scheduled buffers overlap.
C13_BackToBack ==
  [][Enqueued =>
       /\ \A i \in (Len(scheduled) + 1)..Len(scheduled') :
            /\ scheduled'[i][1] = Max(clock', PreviousEnd(scheduled', i, clock'))
            /\ scheduled'[i][2] = scheduled'[i][1] + PartDuration
       /\ nextPlayTime' = scheduled'[Len(scheduled')][2]
       /\ \A i \in 2..Len(scheduled') :
            scheduled'[i][1] >= scheduled'[i - 1][2]]_vars

\* three buffers are scheduled: the second starts exactly at the end of the
\* first, the third arrived after the second had ended
C13_Witness ==
  /\ Len(scheduled) = 3
  /\ scheduled[2][1] = scheduled[1][2]
  /\ scheduled[3][1] > scheduled[2][2]
  /\ nextPlayTime = scheduled[3][2]

\* the last operation processed a frame with interrupted set
Interrupted ==
  op = "onmessage" /\ received.kind = "serverContent" /\ received.interrupted

\* C14: once an interruption has been processed, no buffer remains scheduled
\* whose start time has not been reached.
C14_InterruptionUnschedules ==
  Interrupted => \A i \in 1..Len(scheduled) : scheduled[i][1] <= clock

\* C15: an interruption processed while a buffer is still scheduled in the
\* future leaves nextPlayTime at the current clock time.
C15_InterruptionResetsCursor ==
  (Interrupted /\ \E i \in 1..Len(scheduled) : scheduled[i][1] > clock)
    => nextPlayTime = clock

\* the step is an onmessage that was given a serverContent frame
Dispatched == op' = "onmessage" /\ received'.kind = "serverContent"

HasCall(calls, cb) == \E i \in 1..Len(calls) : calls[i].cb = cb
CallCount(calls, cb) == Cardinality({i \in 1..Len(calls) : calls[i].cb = cb})

\* C16: processing an interruption invokes onInterrupted exactly once and
\* no other callback and leaves both transcript buffers as they were, and
\* the Messages of every later turnComplete carry the whole text of the turn,
\* the text received before an interruption included.
C16_InterruptionKeepsTranscripts ==
  /\ [][(Dispatched /\ received'.interrupted)
          => /\ fired' = <<Call("onInterrupted")>>
             /\ UNCHANGED <<userResponseBuffer, modelResponseBuffer,
                            turnUser, turnModel>>]_vars
  /\ [](flush.done =>
          Plain(Messages(fired)) =
            MessageIf("user", Trim(flush.user))
              \o MessageIf("model", Trim(flush.model)))

\* an interruption has been processed while both buffers held text of the
\* turn
C16_Witness ==
  /\ Interrupted
  /\ Trim(userResponseBuffer) # <<>>
  /\ Trim(modelResponseBuffer) # <<>>
  /\ turnUser = userResponseBuffer
  /\ turnModel = modelResponseBuffer

\* C17: every event of a serverContent frame whose audio parts decode takes
\* effect whatever else the frame carries: each audio part is reported and
\* scheduled or queued, each transcript chunk is appended (or flushed with
\* the turn), turnComplete runs the flush and interrupted invokes
\* onInterrupted.
C17_EveryEventTakesEffect ==
  [][(Dispatched /\ \A i \in 1..Len(received'.audio) : received'.audio[i] = "pcm")
       => /\ received'.interrupted => HasCall(fired', "onInterrupted")
          /\ received'.turnComplete
               => (flush'.done /\ HasCall(fired', "onTurnComplete"))
          /\ CallCount(fired', "onAudio") = Len(received'.audio)
          /\ turnUser' = IF received'.turnComplete THEN <<>>
                         ELSE turnUser \o received'.input
          /\ turnModel' = IF received'.turnComplete THEN <<>>
                          ELSE turnModel \o received'.output]_vars

\* C18: a frame that fails to parse is dropped: the handler does not throw,
\* invokes no callback and leaves the connection state, the socket, the
\* transcript buffers, the audio queue, the schedule and nextPlayTime as
\* they were.
C18_MalformedFrameDropped ==
  [][(op' = "onmessage" /\ received'.kind = "malformed")
       => /\ ~threw'
          /\ fired' = <<>>
          /\ UNCHANGED <<sessionVars, sock, transcriptVars, playbackVars>>]_vars

\* a malformed frame has been received by an Active client that holds text
\* of a turn in progress
C18_Witness ==
  /\ op = "onmessage"
  /\ received.kind = "malformed"
  /\ isConnected
  /\ sock[ws] = "OPEN"
  /\ modelResponseBuffer # <<>>

\* the step delivers the error event, or the close event, of socket c
Errors(c) == sock[c] # "ERRORED" /\ sock'[c] = "ERRORED"
Closes(c) == sock[c] # "CLOSED" /\ sock'[c] = "CLOSED"

\* C19: a transport error invokes onError, and so does the failure of a
\* connection that the service closes before its setupComplete, either in
\* the error event that precedes the close event or in the close handler;
\* once the close event has been handled connected is false.
C19_FatalFailureReported ==
  [][\A c \in Conns :
       /\ Errors(c) => HasCall(fired', "onError")
       /\ (Closes(c) /\ c \notin acked /\ closeCalls[c] = 0)
            => /\ sock[c] = "ERRORED" \/ HasCall(fired', "onError")
               /\ ~isConnected']_vars

\* C20: when the close event of the connection on which the session is
\* Active has been handled, connected is false, onDisconnect has been
\* invoked, and the client holds no microphone stream and no capture
\* context, none of which is left running.
C20_CloseStopsCapture ==
  [][\A c \in Conns :
       (Closes(c) /\ isConnected /\ ws = c /\ c \in acked)
         => /\ ~isConnected'
            /\ HasCall(fired', "onDisconnect")
            /\ ~mediaStream'
            /\ ~audioContext'
            /\ liveStreams' = 0
            /\ liveContexts' = 0]_vars

\* C21: when getUserMedia fails while the session is Active, startMicrophone()
\* rejects and invokes no callback, the session stays Active with its socket,
\* its promises, its transcript buffers and its playback cursor as they were,
\* and a sendText that follows writes its frame.
C21_CaptureFailureIsLocal ==
  [][/\ (op' = "startMicrophone:denied" /\ isConnected)
          => /\ threw'
             /\ fired' = <<>>
             /\ UNCHANGED <<sessionVars, wireVars, userResponseBuffer,
                            modelResponseBuffer, audioQueue, nextPlayTime>>
     /\ (/\ op = "startMicrophone:denied"
         /\ isConnected
         /\ ws # NoSock
         /\ sock[ws] = "OPEN"
         /\ op' = "sendText")
          => out'[ws] = Append(out[ws], "clientContent")]_vars

\* the input device has been refused to an Active client on an open socket
\* that has room for a sendText
C21_Witness ==
  /\ op = "startMicrophone:denied"
  /\ isConnected
  /\ ws # NoSock
  /\ sock[ws] = "OPEN"
  /\ ContentCount(out[ws]) < MaxOut

\* C22: the capture encoder maps every float sample to an integer in
\* [-32768, 32767] of the sample's sign: full scale and everything above it
\* gives 32767, negative full scale and everything below it gives -32768,
\* and a sample in between gives its level without the fraction.
C22_EncoderClamps ==
  samples.stage = "encoded" =>
    /\ samples.value \in PcmMin..PcmMax
    /\ samples.input >= 0 => samples.value >= 0
    /\ samples.input <= 0 => samples.value <= 0
    /\ samples.input >= FullScale * SubSteps => samples.value = PcmMax
    /\ samples.input <= -FullScale * SubSteps => samples.value = PcmMin
    /\ (samples.input \in 0..(PcmMax * SubSteps))
         => samples.value = samples.input \div SubSteps

\* the sample 1.5 has been encoded as 32767
C22_Witness ==
  /\ samples.stage = "encoded"
  /\ 2 * samples.input = 3 * FullScale * SubSteps
  /\ samples.value = PcmMax

\* C23: a PCM sample that is decoded by the playback path and encoded again
\* by the capture path comes back within 1 of its value.
C23_RoundTripWithinOne ==
  samples.stage = "reencoded" =>
    /\ samples.value - samples.input <= 1
    /\ samples.input - samples.value <= 1

\* the most negative PCM sample has made the round trip
C23_Witness ==
  /\ samples.stage = "reencoded"
  /\ samples.input = PcmMin
  /\ samples.value = PcmMin

\* C24: a connect() promise is rejected only once its own socket has failed
\* or closed and is resolved exactly when its own socket has received
\* setupComplete, and the close event of a socket the client no longer holds
\* leaves connected as it was.
C24_SettledByOwnConnection ==
  [][\A c \in Conns :
       /\ promise'[c] = "rejected" => sock'[c] \in {"ERRORED", "CLOSED"}
       /\ promise'[c] = "resolved" <=> c \in acked'
       /\ (Closes(c) /\ ws # c) => isConnected' = isConnected]_vars

\* C25: while the client holds no socket (before the first connect() and
\* between a disconnect() and the next connect()) connected is false, and
\* no frame sets it, schedules audio or invokes a callback.
C25_DisconnectedUntilConnect ==
  [][/\ isConnected' => ws' # NoSock
     /\ (ws = NoSock /\ op' = "onmessage")
          => /\ ~isConnected'
             /\ fired' = <<>>
             /\ scheduled' = scheduled]_vars

\* C26: getUserMedia answering a startMicrophone() call that was made before
\* the last stopMicrophone() or disconnect() starts no capture: the client's
\* stream and capture context, and the streams and contexts that are live,
\* stay as they were.
C26_CancelledStartStaysStopped ==
  [][(op' = "startMicrophone:granted" /\ micStale' < micStale)
       => UNCHANGED <<mediaStream, audioContext, liveStreams, liveContexts>>]_vars

\* C27: when stopMicrophone() has returned the client holds no microphone
\* stream and no capture context, and none is left live to feed the block
\* processor.
C27_StopReleasesEveryDevice ==
  op = "stopMicrophone"
    => /\ ~mediaStream
       /\ ~audioContext
       /\ liveStreams = 0
       /\ liveContexts = 0

\* C28: a frame processed while no playback context exists and none can be
\* created leaves the audio queue empty: its audio parts are not retained.
C28_OutageDropsAudio ==
  (op = "onmessage" /\ playbackContext = "null" /\ ~deviceOk)
    => audioQueue = <<>>

\* what a sequence of received frames holds for the scheduler and for the
\* accumulator of each role: the audio parts with their arrival times, and
\* the chunks of the role with the turnComplete marks between them
CarriesAudio(e) == e.frame.audio # <<>>
CarriesUser(e) == e.frame.input # <<>> \/ e.frame.turnComplete
CarriesModel(e) == e.frame.output # <<>> \/ e.frame.turnComplete
AudioTrack(s) ==
  LET t == SelectSeq(s, CarriesAudio)
  IN [i \in 1..Len(t) |-> <<t[i].frame.audio, t[i].time>>]
UserTrack(s) ==
  LET t == SelectSeq(s, CarriesUser)
  IN [i \in 1..Len(t) |-> <<t[i].frame.input, t[i].frame.turnComplete>>]
ModelTrack(s) ==
  LET t == SelectSeq(s, CarriesModel)
  IN [i \in 1..Len(t) |-> <<t[i].frame.output, t[i].frame.turnComplete>>]
Equivalent(s, t) ==
  /\ AudioTrack(s) = AudioTrack(t)
  /\ UserTrack(s) = UserTrack(t)
  /\ ModelTrack(s) = ModelTrack(t)

C30_LateChunkStartsNextTurn ==
  [][(Dispatched /\ \A i \in 1..Len(received'.audio) : received'.audio[i] = "pcm")
       => IF received'.turnComplete
          THEN Plain(Messages(fired')) =
                 MessageIf("user", Trim(userResponseBuffer \o received'.input))
                   \o MessageIf("model",
                                Trim(modelResponseBuffer \o received'.output))
          ELSE /\ userResponseBuffer' = userResponseBuffer \o received'.input
               /\ modelResponseBuffer' = modelResponseBuffer \o received'.output]_vars

====
